---- MODULE Spec2Model ----
(***************************************************************************)
(* List-of-lists n-dimensional matrix storage (ext/nmatrix/storage/list.c).*)
(*                                                                         *)
(* A LIST is a sequence of NODEs [key, val]; the position of a node in the *)
(* sequence stands for the NODE* pointer (0 is the NULL pointer).  At      *)
(* nesting depth 0 a node's val is an element, above it a LIST.  A         *)
(* LIST_STORAGE is the record [dtype, rank, shape, default_val, rows].     *)
(* Coordinates are 0-based as in C; coords[k+1] here is coords[k] there.   *)
(***************************************************************************)
EXTENDS Integers, Sequences, FiniteSets, TLC

VARIABLES s, right, shadow, last, status, input, out

vars == <<s, right, shadow, last, status, input, out>>

\* Elements stored by the insert/remove specification are 0..MaxVal.
MaxVal == 1

\* The NULL pointer, as a node position and as a returned value pointer.
NULL == 0 - 1

Values == 0 .. MaxVal

(***************************************************************************)
(* Element type table (nmatrix.h: nm_sizeof, SetFuncs, ElemEqEq).          *)
(***************************************************************************)
DTypes == {"NM_BYTE", "NM_INT16", "NM_INT32", "NM_FLOAT64"}

nm_sizeof(dtype) ==
  CASE dtype = "NM_BYTE"    -> 1
    [] dtype = "NM_INT16"   -> 2
    [] dtype = "NM_INT32"   -> 4
    [] dtype = "NM_FLOAT64" -> 8

\* SetFuncs[l_dtype][r_dtype](1, dst, 0, src, 0): a C conversion of one element.
\* Only the conversion to the unsigned byte loses anything on the elements used.
SetFuncs(l_dtype, r_dtype, v) ==
  IF l_dtype = "NM_BYTE" THEN v % 256 ELSE v

\* ElemEqEq[dtype][0](a, b, 1, nm_sizeof[dtype])
ElemEqEq(dtype, a, b) == a = b

RECURSIVE count_storage_max_elements(_)
count_storage_max_elements(shape) ==
  IF shape = <<>> THEN 1 ELSE Head(shape) * count_storage_max_elements(Tail(shape))

(***************************************************************************)
(* Node/List primitive (util/sl_list).                                     *)
(***************************************************************************)
create_list == <<>>

Node(key, val) == [key |-> key, val |-> val]

\* Scans to the exact match or to the end.
list_find(l, key) ==
  IF \E i \in 1 .. Len(l) : l[i].key = key
  THEN CHOOSE i \in 1 .. Len(l) :
         /\ l[i].key = key
         /\ \A j \in 1 .. (i - 1) : l[j].key # key
  ELSE 0

\* The last node, walking from p, whose successor's key does not exceed key.
RECURSIVE list_find_nearest_from(_, _, _)
list_find_nearest_from(l, p, key) ==
  IF p < Len(l) /\ l[p + 1].key <= key
  THEN list_find_nearest_from(l, p + 1, key)
  ELSE p

list_insert_after(l, p, key, val) ==
  [list |-> SubSeq(l, 1, p) \o <<Node(key, val)>> \o SubSeq(l, p + 1, Len(l)),
   pos  |-> p + 1]

list_insert(l, replace, key, val) ==
  IF l = <<>> THEN [list |-> <<Node(key, val)>>, pos |-> 1]
  ELSE IF key < l[1].key THEN [list |-> <<Node(key, val)>> \o l, pos |-> 1]
  ELSE LET p == list_find_nearest_from(l, 1, key) IN
       IF l[p].key = key
       THEN [list |-> IF replace THEN [l EXCEPT ![p].val = val] ELSE l, pos |-> p]
       ELSE list_insert_after(l, p, key, val)

\* Splices the node out and releases it; found = FALSE is the NULL result.
list_remove(l, key) ==
  LET p == list_find(l, key) IN
  IF p = 0 THEN [list |-> l, found |-> FALSE, val |-> NULL]
  ELSE [list  |-> SubSeq(l, 1, p - 1) \o SubSeq(l, p + 1, Len(l)),
        found |-> TRUE,
        val   |-> l[p].val]

\* The list a chain of node positions leads to, and the tree with it replaced
\* (an in-place update through the pointers held in the chain).
RECURSIVE ListAt(_, _)
ListAt(l, path) ==
  IF path = <<>> THEN l ELSE ListAt(l[Head(path)].val, Tail(path))

RECURSIVE ReplaceAt(_, _, _)
ReplaceAt(l, path, new) ==
  IF path = <<>> THEN new
  ELSE [l EXCEPT ![Head(path)].val = ReplaceAt(l[Head(path)].val, Tail(path), new)]

\* Every stored entry of the tree compared with one value; checked counts the
\* terminal entries visited.
RECURSIVE list_eqeq_value(_, _, _, _, _)
list_eqeq_value(l, v, dtype, recursions, checked) ==
  IF l = <<>> THEN [ok |-> TRUE, checked |-> checked]
  ELSE LET h == IF recursions = 0
                THEN [ok |-> ElemEqEq(dtype, Head(l).val, v), checked |-> checked + 1]
                ELSE list_eqeq_value(Head(l).val, v, dtype, recursions - 1, checked)
       IN IF ~h.ok THEN h
          ELSE list_eqeq_value(Tail(l), v, dtype, recursions, h.checked)

\* Two trees walked level by level and matched by key: a key present on both
\* sides recurses (or compares the two elements), a key present on one side
\* compares that side's entries with the other side's default.
RECURSIVE list_eqeq_list(_, _, _, _, _, _, _)
list_eqeq_list(left, rght, left_val, right_val, dtype, recursions, checked) ==
  IF left = <<>> /\ rght = <<>> THEN [ok |-> TRUE, checked |-> checked]
  ELSE IF rght = <<>> \/ (left # <<>> /\ Head(left).key < Head(rght).key)
  THEN LET h == IF recursions = 0
                THEN [ok |-> ElemEqEq(dtype, Head(left).val, right_val),
                      checked |-> checked + 1]
                ELSE list_eqeq_value(Head(left).val, right_val, dtype,
                                     recursions - 1, checked)
       IN IF ~h.ok THEN h
          ELSE list_eqeq_list(Tail(left), rght, left_val, right_val, dtype,
                              recursions, h.checked)
  ELSE IF left = <<>> \/ Head(rght).key < Head(left).key
  THEN LET h == IF recursions = 0
                THEN [ok |-> ElemEqEq(dtype, Head(rght).val, left_val),
                      checked |-> checked + 1]
                ELSE list_eqeq_value(Head(rght).val, left_val, dtype,
                                     recursions - 1, checked)
       IN IF ~h.ok THEN h
          ELSE list_eqeq_list(left, Tail(rght), left_val, right_val, dtype,
                              recursions, h.checked)
  ELSE LET h == IF recursions = 0
                THEN [ok |-> ElemEqEq(dtype, Head(left).val, Head(rght).val),
                      checked |-> checked + 1]
                ELSE list_eqeq_list(Head(left).val, Head(rght).val, left_val,
                                    right_val, dtype, recursions - 1, checked)
       IN IF ~h.ok THEN h
          ELSE list_eqeq_list(Tail(left), Tail(rght), left_val, right_val, dtype,
                              recursions, h.checked)

(***************************************************************************)
(* Lifecycle and accessors.                                                *)
(***************************************************************************)
list_storage_create(dtype, shape, rank, init_val) ==
  [dtype |-> dtype, rank |-> rank, shape |-> shape,
   default_val |-> init_val, rows |-> create_list]

RECURSIVE list_storage_get_r(_, _, _, _)
list_storage_get_r(l, coords, k, st) ==
  LET n == list_find(l, coords[k]) IN
  IF n = 0 THEN st.default_val
  ELSE IF k < st.rank THEN list_storage_get_r(l[n].val, coords, k + 1, st)
  ELSE l[n].val

list_storage_get(st, coords) == list_storage_get_r(st.rows, coords, 1, st)

\* list_storage_insert with the final list_insert not replacing a stored value.
RECURSIVE list_storage_insert_keep(_, _, _, _, _)
list_storage_insert_keep(l, coords, k, rank, val) ==
  IF k < rank
  THEN LET n == list_insert(l, FALSE, coords[k], create_list) IN
       [n.list EXCEPT ![n.pos].val =
          list_storage_insert_keep(n.list[n.pos].val, coords, k + 1, rank, val)]
  ELSE list_insert(l, FALSE, coords[k], val).list

RECURSIVE list_storage_insert_r(_, _, _, _, _)
list_storage_insert_r(l, coords, k, rank, val) ==
  IF k < rank
  THEN LET n == list_insert(l, FALSE, coords[k], create_list) IN
       [n.list EXCEPT ![n.pos].val =
          list_storage_insert_r(n.list[n.pos].val, coords, k + 1, rank, val)]
  ELSE list_insert(l, TRUE, coords[k], val).list

list_storage_insert(st, coords, val) ==
  [st EXCEPT !.rows = list_storage_insert_r(st.rows, coords, 1, st.rank, val)]

\* The drill-down of list_storage_remove: the stack of nodes found, or the
\* level at which list_find failed.
RECURSIVE remove_descend(_, _, _, _, _)
remove_descend(l, coords, k, rank, stack) ==
  IF k >= rank THEN [found |-> TRUE, stack |-> stack]
  ELSE LET n == list_find(l, coords[k]) IN
       IF n = 0 THEN [found |-> FALSE, stack |-> stack]
       ELSE remove_descend(l[n].val, coords, k + 1, rank, Append(stack, n))

\* The walk back down the stack, r as in the C loop (rank-2 down to 0):
\* stack[r]->val is the list the chain stack[0..r] leads to.
RECURSIVE remove_prune(_, _, _, _, _)
remove_prune(rows, stack, coords, r, frees) ==
  IF r < 0 THEN [rows |-> rows, frees |-> frees]
  ELSE LET path == SubSeq(stack, 1, r + 1)
           l    == ListAt(rows, path)
       IN IF l = <<>>
          THEN LET rm == list_remove(l, coords[r + 1]) IN
               remove_prune(ReplaceAt(rows, path, rm.list), stack, coords, r - 1,
                            frees + (IF rm.found THEN 2 ELSE 0))
          ELSE [rows |-> rows, frees |-> frees]

\* rows: the tree afterwards; ret: the removed value or NULL; frees: heap
\* blocks released; badfree: free() was called on the alloca'd stack.
list_storage_remove(st, coords) ==
  LET d == remove_descend(st.rows, coords, 1, st.rank, <<>>) IN
  IF ~d.found
  THEN [rows |-> st.rows, ret |-> NULL, frees |-> 0, badfree |-> TRUE]
  ELSE LET l  == ListAt(st.rows, d.stack)
           rm == list_remove(l, coords[st.rank])
           r1 == ReplaceAt(st.rows, d.stack, rm.list)
       IN IF rm.found
          THEN LET p == remove_prune(r1, d.stack, coords, st.rank - 2, 1) IN
               [rows |-> p.rows, ret |-> rm.val, frees |-> p.frees, badfree |-> FALSE]
          ELSE [rows |-> r1, ret |-> NULL, frees |-> 0, badfree |-> FALSE]

\* list_storage_count_elements_r counting the nodes of every level.
RECURSIVE count_elements_all_nodes(_, _)
count_elements_all_nodes(l, recursions) ==
  IF l = <<>> THEN 0
  ELSE (IF recursions > 0
        THEN 1 + count_elements_all_nodes(Head(l).val, recursions - 1)
        ELSE 1)
       + count_elements_all_nodes(Tail(l), recursions)

RECURSIVE list_storage_count_elements_r(_, _)
list_storage_count_elements_r(l, recursions) ==
  IF l = <<>> THEN 0
  ELSE (IF recursions > 0
        THEN list_storage_count_elements_r(Head(l).val, recursions - 1)
        ELSE 1)
       + list_storage_count_elements_r(Tail(l), recursions)

(***************************************************************************)
(* Insert / remove / get on one container.                                 *)
(*                                                                         *)
(* shadow is the finite map the container stands for: the value of the     *)
(* most recent insert at each coordinate not since removed, NULL otherwise.*)
(* last records the call just made: its arguments, the tree before it, its *)
(* result and the heap blocks it released.                                 *)
(***************************************************************************)
OpShapes == {<<3>>, <<2, 2>>, <<2, 1, 2>>}

RECURSIVE Coords(_)
Coords(shape) ==
  IF shape = <<>> THEN {<<>>}
  ELSE {<<k>> \o c : k \in 0 .. (Head(shape) - 1), c \in Coords(Tail(shape))}

NoCall == [op |-> "create", coords |-> <<>>, val |-> NULL, ret |-> NULL,
           pre |-> create_list, frees |-> 0, badfree |-> FALSE]

Unused == <<>>

Init ==
  /\ \E shape \in OpShapes, d \in Values :
       /\ s = list_storage_create("NM_INT32", shape, Len(shape), d)
       /\ shadow = [c \in Coords(shape) |-> NULL]
  /\ last = NoCall
  /\ status = "running"
  /\ right = Unused
  /\ input = Unused
  /\ out = Unused

Insert ==
  /\ status = "running"
  /\ \E c \in Coords(s.shape), v \in Values :
       /\ s' = list_storage_insert(s, c, v)
       /\ shadow' = [shadow EXCEPT ![c] = v]
       /\ last' = [op |-> "insert", coords |-> c, val |-> v,
                   ret |-> list_storage_get(list_storage_insert(s, c, v), c),
                   pre |-> s.rows, frees |-> 0, badfree |-> FALSE]
  /\ UNCHANGED <<status, right, input, out>>

\* free() of memory obtained from alloca is undefined: the call is either
\* not noticed by the allocator, or the allocator aborts the process.
Remove ==
  /\ status = "running"
  /\ \E c \in Coords(s.shape) :
       LET r == list_storage_remove(s, c) IN
       /\ s' = [s EXCEPT !.rows = r.rows]
       /\ shadow' = [shadow EXCEPT ![c] = NULL]
       /\ last' = [op |-> "remove", coords |-> c, val |-> NULL, ret |-> r.ret,
                   pre |-> s.rows, frees |-> r.frees, badfree |-> r.badfree]
       /\ IF r.badfree
          THEN status' \in {"running", "aborted"}
          ELSE status' = "running"
  /\ UNCHANGED <<right, input, out>>

Get ==
  /\ status = "running"
  /\ \E c \in Coords(s.shape) :
       last' = [op |-> "get", coords |-> c, val |-> NULL,
                ret |-> list_storage_get(s, c),
                pre |-> s.rows, frees |-> 0, badfree |-> FALSE]
  /\ UNCHANGED <<s, shadow, status, right, input, out>>

CountElements ==
  /\ status = "running"
  /\ last' = [op |-> "count", coords |-> <<>>, val |-> NULL,
              ret |-> list_storage_count_elements_r(s.rows, s.rank - 1),
              pre |-> s.rows, frees |-> 0, badfree |-> FALSE]
  /\ UNCHANGED <<s, shadow, status, right, input, out>>

Next == Insert \/ Remove \/ Get \/ CountElements

Spec == Init /\ [][Next]_vars

(***************************************************************************)
(* Properties of insert / remove / get.                                    *)
(***************************************************************************)
\* Whether the tree holds a terminal node at coords.
IsStored(rows, coords, rank) ==
  LET d == remove_descend(rows, coords, 1, rank, <<>>) IN
  /\ d.found
  /\ list_find(ListAt(rows, d.stack), coords[rank]) # 0

StoredValue(rows, coords, rank) ==
  LET l == ListAt(rows, remove_descend(rows, coords, 1, rank, <<>>).stack) IN
  l[list_find(l, coords[rank])].val

RECURSIVE NoEmptyList(_, _)
NoEmptyList(l, depth) ==
  depth = 0 \/ \A i \in 1 .. Len(l) : l[i].val # <<>> /\ NoEmptyList(l[i].val, depth - 1)

\* The tree holding the single coordinate c, built from an empty container.
SingleEntry(c, v) ==
  list_storage_insert(list_storage_create(s.dtype, s.shape, s.rank, s.default_val), c, v).rows

\* C1: for rank >= 2, insert(c, v) into an empty container followed by
\* remove(c) leaves the root list empty, with no empty intermediate list
\* reachable from the root.
C1_PruneAfterSingleInsert ==
  ( /\ s.rank >= 2
    /\ last.op = "remove"
    /\ \E v \in Values : last.pre = SingleEntry(last.coords, v) )
  => (s.rows = <<>> /\ NoEmptyList(s.rows, s.rank - 1))

Effective(c) == IF shadow[c] # NULL THEN shadow[c] ELSE s.default_val

\* C4: get(c) is the value of the most recent insert at c not followed by a
\* remove at c, and the default otherwise, for every coordinate within shape
\* (so a call at c changes get at no other coordinate); insert and get return
\* the value stored.
C4_RefinesFiniteMap ==
  /\ \A c \in Coords(s.shape) : list_storage_get(s, c) = Effective(c)
  /\ last.op = "insert" => last.ret = last.val
  /\ last.op = "get" => last.ret = Effective(last.coords)

\* An insert over a different stored value, in a rank-3 tree holding another
\* coordinate as well.
C4_Witness ==
  /\ s.rank = 3
  /\ last.op = "insert"
  /\ IsStored(last.pre, last.coords, s.rank)
  /\ StoredValue(last.pre, last.coords, s.rank) # last.val
  /\ \E c \in Coords(s.shape) : c # last.coords /\ shadow[c] # NULL

\* C8: remove(c) where nothing is stored returns NULL, leaves the tree as it
\* was and releases no memory; remove(c) on a stored coordinate returns the
\* stored value.
C8_RemoveMiss ==
  last.op = "remove" =>
    IF IsStored(last.pre, last.coords, s.rank)
    THEN last.ret = StoredValue(last.pre, last.coords, s.rank)
    ELSE /\ last.ret = NULL
         /\ s.rows = last.pre
         /\ last.frees = 0
         /\ ~last.badfree
         /\ status = "running"

NumStored == Cardinality({c \in Coords(s.shape) : shadow[c] # NULL})

\* C9: list_storage_count_elements_r(rows, rank-1) is the number of
\* coordinates that hold a stored value.
C9_CountIsStored ==
  /\ list_storage_count_elements_r(s.rows, s.rank - 1) = NumStored
  /\ last.op = "count" => last.ret = NumStored

\* Two rows were populated and one of them emptied again; one element is left.
C9_Witness ==
  /\ s.rank = 2
  /\ last.op = "count"
  /\ last.ret = 1
  /\ Len(s.rows) = 2

(***************************************************************************)
(* Equality of two containers.                                             *)
(***************************************************************************)
\* list_storage_eqeq with the default values left uncompared when only the
\* right operand is empty.
list_storage_eqeq_skip(left, rght) ==
  LET max_elements == count_storage_max_elements(left.shape)
      dflt == ElemEqEq(left.dtype, left.default_val, rght.default_val)
  IN IF left.rows = <<>>
     THEN IF rght.rows = <<>> THEN dflt
          ELSE LET v == list_eqeq_value(rght.rows, left.default_val, left.dtype,
                                        left.rank - 1, 0)
               IN IF ~v.ok THEN FALSE
                  ELSE IF v.checked < max_elements THEN dflt
                  ELSE TRUE
     ELSE IF rght.rows = <<>>
     THEN list_eqeq_value(left.rows, rght.default_val, left.dtype, left.rank - 1, 0).ok
     ELSE LET v == list_eqeq_list(left.rows, rght.rows, left.default_val,
                                  rght.default_val, left.dtype, left.rank - 1, 0)
          IN IF ~v.ok THEN FALSE
             ELSE IF v.checked < max_elements THEN dflt
             ELSE TRUE

list_storage_eqeq(left, rght) ==
  LET max_elements == count_storage_max_elements(left.shape)
      dflt == ElemEqEq(left.dtype, left.default_val, rght.default_val)
  IN IF left.rows = <<>>
     THEN IF rght.rows = <<>> THEN dflt
          ELSE LET v == list_eqeq_value(rght.rows, left.default_val, left.dtype,
                                        left.rank - 1, 0)
               IN IF ~v.ok THEN FALSE
                  ELSE IF v.checked < max_elements THEN dflt
                  ELSE TRUE
     ELSE IF rght.rows = <<>>
     THEN LET v == list_eqeq_value(left.rows, rght.default_val, left.dtype,
                                   left.rank - 1, 0)
          IN IF ~v.ok THEN FALSE
             ELSE IF v.checked < max_elements THEN dflt
             ELSE TRUE
     ELSE LET v == list_eqeq_list(left.rows, rght.rows, left.default_val,
                                  rght.default_val, left.dtype, left.rank - 1, 0)
          IN IF ~v.ok THEN FALSE
             ELSE IF v.checked < max_elements THEN dflt
             ELSE TRUE

EqShapes == {<<0>>, <<3>>, <<0, 2>>, <<2, 1>>, <<1, 2>>, <<1, 1, 2>>}

NoResult == [done |-> FALSE, lr |-> FALSE, rl |-> FALSE, ll |-> FALSE, rr |-> FALSE]

InitEq ==
  /\ \E shape \in EqShapes, d \in Values, e \in Values :
       /\ s = list_storage_create("NM_INT32", shape, Len(shape), d)
       /\ right = list_storage_create("NM_INT32", shape, Len(shape), e)
  /\ out = NoResult
  /\ shadow = Unused
  /\ last = NoCall
  /\ status = "running"
  /\ input = Unused

InsertLeft ==
  /\ \E c \in Coords(s.shape), v \in Values : s' = list_storage_insert(s, c, v)
  /\ out' = NoResult
  /\ UNCHANGED <<right, shadow, last, status, input>>

InsertRight ==
  /\ \E c \in Coords(right.shape), v \in Values :
       right' = list_storage_insert(right, c, v)
  /\ out' = NoResult
  /\ UNCHANGED <<s, shadow, last, status, input>>

\* Only removals of stored coordinates: a miss changes neither tree.
RemoveLeft ==
  /\ \E c \in Coords(s.shape) :
       /\ IsStored(s.rows, c, s.rank)
       /\ s' = [s EXCEPT !.rows = list_storage_remove(s, c).rows]
  /\ out' = NoResult
  /\ UNCHANGED <<right, shadow, last, status, input>>

RemoveRight ==
  /\ \E c \in Coords(right.shape) :
       /\ IsStored(right.rows, c, right.rank)
       /\ right' = [right EXCEPT !.rows = list_storage_remove(right, c).rows]
  /\ out' = NoResult
  /\ UNCHANGED <<s, shadow, last, status, input>>

Eqeq ==
  /\ ~out.done
  /\ out' = [done |-> TRUE,
             lr |-> list_storage_eqeq(s, right),
             rl |-> list_storage_eqeq(right, s),
             ll |-> list_storage_eqeq(s, s),
             rr |-> list_storage_eqeq(right, right)]
  /\ UNCHANGED <<s, right, shadow, last, status, input>>

NextEq == InsertLeft \/ InsertRight \/ RemoveLeft \/ RemoveRight \/ Eqeq

SpecEq == InitEq /\ [][NextEq]_vars

\* Element-wise equality of the effective elements over [0, shape).
DenseEqual(left, rght) ==
  \A c \in Coords(left.shape) :
    ElemEqEq(left.dtype, list_storage_get(left, c), list_storage_get(rght, c))

\* C5: list_storage_eqeq(left, right) is true exactly when the effective
\* elements of left and right agree at every coordinate in [0, shape).
C5_EqeqIffDense ==
  out.done => (out.lr <=> DenseEqual(s, right))

\* C6: eqeq(A, A) is true and eqeq(A, B) = eqeq(B, A).
C6_ReflexiveSymmetric ==
  out.done => (out.ll /\ out.rr /\ (out.lr <=> out.rl))

\* Only the left operand is empty, the right one stores the left's default
\* at some coordinates but not all, and the two compare equal.
C6_Witness ==
  /\ out.done
  /\ s.rows = <<>>
  /\ right.rows # <<>>
  /\ list_storage_count_elements_r(right.rows, right.rank - 1) = 1
  /\ out.lr

(***************************************************************************)
(* Conversions: from dense, from yale, cast copy.                          *)
(*                                                                         *)
(* A DENSE_STORAGE is [kind, dtype, rank, shape, elements], elements the   *)
(* flat row-major buffer.  A YALE_STORAGE is [kind, dtype, rank, shape, a, *)
(* ija]: a holds the diagonal in slots 0..n-1, the zero in slot n and the  *)
(* off-diagonal values after it; ija holds the row boundaries in slots     *)
(* 0..n and the column numbers after them.  Slot k of a C array is element *)
(* k+1 of the sequence.                                                    *)
(***************************************************************************)
\* size_t arithmetic wraps; the modulus is scaled down from 2^64, which only
\* matters where pos is decremented at 0.
SizeMod == 65536

\* cast_copy_value_single(dst, src, l_dtype, r_dtype)
cast_copy_value_single(l_dtype, r_dtype, v) == SetFuncs(l_dtype, r_dtype, v)

\* list_insert when the list is empty, list_insert_after(prev) otherwise.
dense_append(lhs, prev, key, val) ==
  IF lhs = <<>> THEN list_insert(lhs, FALSE, key, val)
  ELSE list_insert_after(lhs, prev, key, val)

\* One pass of the for loop of list_storage_cast_copy_contents_dense from
\* coordinate i on; st is [lhs, prev, pos, added].  At recursions > 0 the
\* result of the nested call on a fresh sub_list decides whether it is kept.
RECURSIVE dense_loop(_, _, _, _, _, _, _, _)
dense_loop(st, i, rhs, zero, l_dtype, r_dtype, shape, recursions) ==
  LET rank == Len(shape)
      bump(n) == [n EXCEPT !.pos = (n.pos + 1) % SizeMod]
  IN IF i >= shape[rank - recursions] THEN st
     ELSE IF recursions = 0
     THEN LET e == rhs[st.pos + 1] IN
          IF ~ElemEqEq(r_dtype, e, zero)
          THEN LET n == dense_append(st.lhs, st.prev, i,
                                     cast_copy_value_single(l_dtype, r_dtype, e))
               IN dense_loop(bump([st EXCEPT !.lhs = n.list, !.prev = n.pos,
                                             !.added = TRUE]),
                             i + 1, rhs, zero, l_dtype, r_dtype, shape, recursions)
          ELSE dense_loop(bump(st), i + 1, rhs, zero, l_dtype, r_dtype, shape,
                          recursions)
     ELSE LET sub == dense_loop([lhs |-> create_list, prev |-> 0, pos |-> st.pos,
                                 added |-> FALSE],
                                0, rhs, zero, l_dtype, r_dtype, shape, recursions - 1)
              \* the callee's epilogue: --(*pos); return added;
              sub_pos    == (sub.pos - 1) % SizeMod
              added_list == sub.added
          IN IF ~added_list
             THEN dense_loop(bump([st EXCEPT !.pos = sub_pos]),
                             i + 1, rhs, zero, l_dtype, r_dtype, shape, recursions)
             ELSE LET n == dense_append(st.lhs, st.prev, i, sub.lhs) IN
                  dense_loop(bump([st EXCEPT !.lhs = n.list, !.prev = n.pos,
                                             !.pos = sub_pos]),
                             i + 1, rhs, zero, l_dtype, r_dtype, shape, recursions)

list_storage_cast_copy_contents_dense(rhs, zero, l_dtype, r_dtype, shape, recursions) ==
  dense_loop([lhs |-> create_list, prev |-> 0, pos |-> 0, added |-> FALSE],
             0, rhs, zero, l_dtype, r_dtype, shape, recursions)

list_storage_from_dense(rhs, l_dtype) ==
  LET l_default_val == 0
      r_default_val == 0
      r == list_storage_cast_copy_contents_dense(rhs.elements, r_default_val, l_dtype,
                                                  rhs.dtype, rhs.shape, rhs.rank - 1)
  IN [list_storage_create(l_dtype, rhs.shape, rhs.rank, l_default_val)
        EXCEPT !.rows = r.lhs]

\* YaleGetIJA(v, rhs, k)
YaleGetIJA(rhs, k) == rhs.ija[k + 1]

YaleA(rhs, k) == rhs.a[k + 1]

\* list_insert_after(last_added) when something was added, list_insert otherwise.
yale_append(list, last_added, key, val) ==
  IF last_added # 0 THEN list_insert_after(list, last_added, key, val)
  ELSE list_insert(list, FALSE, key, val)

\* yale_row_loop with the diagonal inserted in front of the first stored
\* entry whatever its column.
RECURSIVE yale_row_loop_early_diag(_, _, _, _, _)
yale_row_loop_early_diag(st, ija_next, i, rhs, l_dtype) ==
  IF st.ija >= ija_next THEN st
  ELSE LET jj == YaleGetIJA(rhs, st.ija)
           d  == IF st.add_diag
                 THEN LET n == yale_append(st.row, st.last_added, i,
                                           SetFuncs(l_dtype, rhs.dtype, YaleA(rhs, i)))
                      IN [st EXCEPT !.row = n.list, !.last_added = n.pos,
                                    !.add_diag = FALSE]
                 ELSE st
           n2 == yale_append(d.row, d.last_added, jj,
                             SetFuncs(l_dtype, rhs.dtype, YaleA(rhs, st.ija)))
       IN yale_row_loop_early_diag([d EXCEPT !.row = n2.list, !.last_added = n2.pos,
                                             !.ija = st.ija + 1],
                                   ija_next, i, rhs, l_dtype)

\* The while loop over the stored entries of row i; st is
\* [row, last_added, add_diag, ija].
RECURSIVE yale_row_loop(_, _, _, _, _)
yale_row_loop(st, ija_next, i, rhs, l_dtype) ==
  IF st.ija >= ija_next THEN st
  ELSE LET jj == YaleGetIJA(rhs, st.ija)
           d  == IF jj > i /\ st.add_diag
                 THEN LET n == yale_append(st.row, st.last_added, i,
                                           SetFuncs(l_dtype, rhs.dtype, YaleA(rhs, i)))
                      IN [st EXCEPT !.row = n.list, !.last_added = n.pos,
                                    !.add_diag = FALSE]
                 ELSE st
           n2 == yale_append(d.row, d.last_added, jj,
                             SetFuncs(l_dtype, rhs.dtype, YaleA(rhs, st.ija)))
       IN yale_row_loop([d EXCEPT !.row = n2.list, !.last_added = n2.pos,
                                  !.ija = st.ija + 1],
                        ija_next, i, rhs, l_dtype)

\* The row built for row i, or none when the row has no entry and a zero diagonal.
yale_row(rhs, i, l_dtype) ==
  LET ija      == YaleGetIJA(rhs, i)
      ija_next == YaleGetIJA(rhs, i + 1)
      R_ZERO   == YaleA(rhs, rhs.shape[1])
      add_diag == ~ElemEqEq(rhs.dtype, YaleA(rhs, i), R_ZERO)
  IN IF ija < ija_next \/ add_diag
     THEN LET w == yale_row_loop([row |-> create_list, last_added |-> 0,
                                  add_diag |-> add_diag, ija |-> ija],
                                 ija_next, i, rhs, l_dtype)
              f == IF w.add_diag
                   THEN yale_append(w.row, w.last_added, i,
                                    SetFuncs(l_dtype, rhs.dtype, YaleA(rhs, i))).list
                   ELSE w.row
          IN [some |-> TRUE, row |-> f]
     ELSE [some |-> FALSE, row |-> create_list]

\* The for loop over the rows, i = shape[0]-1 down to 0 (here i is the row
\* about to be processed); st is [rows, last_row_added].
RECURSIVE yale_rows_loop(_, _, _, _)
yale_rows_loop(st, i, rhs, l_dtype) ==
  IF i < 0 THEN st
  ELSE LET r == yale_row(rhs, i, l_dtype) IN
       IF r.some
       THEN LET n == yale_append(st.rows, st.last_row_added, i, r.row) IN
            yale_rows_loop([rows |-> n.list, last_row_added |-> n.pos],
                           i - 1, rhs, l_dtype)
       ELSE yale_rows_loop(st, i - 1, rhs, l_dtype)

list_storage_from_yale(rhs, l_dtype) ==
  LET R_ZERO      == YaleA(rhs, rhs.shape[1])
      default_val == SetFuncs(l_dtype, rhs.dtype, R_ZERO)
      r == yale_rows_loop([rows |-> create_list, last_row_added |-> 0],
                          rhs.shape[1] - 1, rhs, l_dtype)
  IN [list_storage_create(l_dtype, rhs.shape, rhs.rank, default_val)
        EXCEPT !.rows = r.rows]

\* cast_copy_list_contents(lhs, rhs, l_dtype, r_dtype, recursions)
RECURSIVE cast_copy_list_contents(_, _, _, _)
cast_copy_list_contents(rhs, l_dtype, r_dtype, recursions) ==
  [k \in 1 .. Len(rhs) |->
     Node(rhs[k].key,
          IF recursions = 0 THEN SetFuncs(l_dtype, r_dtype, rhs[k].val)
          ELSE cast_copy_list_contents(rhs[k].val, l_dtype, r_dtype, recursions - 1))]

\* lhs: the copy; default_alloc: bytes allocated for its default value;
\* default_written: bytes written into that buffer.
list_storage_cast_copy(rhs, new_dtype) ==
  LET default_alloc == nm_sizeof(rhs.dtype)
      default_val   == IF new_dtype = rhs.dtype THEN rhs.default_val
                       ELSE SetFuncs(new_dtype, rhs.dtype, rhs.default_val)
      written       == IF new_dtype = rhs.dtype THEN nm_sizeof(rhs.dtype)
                       ELSE nm_sizeof(new_dtype)
  IN [lhs |-> [list_storage_create(new_dtype, rhs.shape, rhs.rank, default_val)
                 EXCEPT !.rows = cast_copy_list_contents(rhs.rows, new_dtype,
                                                         rhs.dtype, rhs.rank - 1)],
      default_alloc   |-> default_alloc,
      default_written |-> written]

(***************************************************************************)
(* The conversion specification: a source is drawn, converted, and the     *)
(* resulting container is cast-copied.                                     *)
(***************************************************************************)
DenseShapes == {<<3>>, <<2, 2>>, <<2, 0>>, <<1, 2, 2>>}

\* Elements of a source of the given dtype; 256 is non-zero and converts to
\* the byte 0.
SourceElems(dtype) == IF dtype = "NM_BYTE" THEN {0, 1} ELSE {0, 1, 256}

DenseInputs ==
  UNION {
    {[kind |-> "dense", dtype |-> dt, rank |-> Len(sh), shape |-> sh, elements |-> e] :
       e \in [1 .. count_storage_max_elements(sh) -> SourceElems(dt)]} :
    sh \in DenseShapes, dt \in {"NM_BYTE", "NM_INT16"}}

YaleShapes == {<<2, 3>>, <<3, 3>>}

RECURSIVE SortedSeq(_)
SortedSeq(S) ==
  IF S = {} THEN <<>>
  ELSE LET m == CHOOSE x \in S : \A y \in S : x <= y IN <<m>> \o SortedSeq(S \ {m})

RECURSIVE ConcatRows(_, _, _)
ConcatRows(f, i, n) == IF i >= n THEN <<>> ELSE f[i] \o ConcatRows(f, i + 1, n)

\* The yale arrays of the matrix with diagonal diag and off-diagonal entries
\* off (NULL where none is stored).
MakeYale(sh, diag, off) ==
  LET n    == sh[1]
      cols == [i \in 0 .. (n - 1) |->
                 SortedSeq({j \in 0 .. (sh[2] - 1) : j # i /\ off[<<i, j>>] # NULL})]
      vals == [i \in 0 .. (n - 1) |->
                 [k \in 1 .. Len(cols[i]) |-> off[<<i, cols[i][k]>>]]]
      ptr  == [i \in 0 .. n |-> n + 1 + Len(ConcatRows(cols, 0, i))]
  IN [kind |-> "yale", dtype |-> "NM_INT16", rank |-> 2, shape |-> sh,
      a   |-> [i \in 1 .. n |-> diag[i - 1]] \o <<0>> \o ConcatRows(vals, 0, n),
      ija |-> [i \in 1 .. (n + 1) |-> ptr[i - 1]] \o ConcatRows(cols, 0, n)]

YaleInputs ==
  UNION {
    {MakeYale(sh, diag, off) :
       diag \in [0 .. (sh[1] - 1) -> {0, 1}],
       off \in [{c \in Coords(sh) : c[1] # c[2]} -> {NULL, 1, 256}]} :
    sh \in YaleShapes}

NoCopy == [lhs |-> list_storage_create("NM_BYTE", <<0>>, 1, 0),
           default_alloc |-> 0, default_written |-> 0]

InitConv ==
  /\ input \in DenseInputs \cup YaleInputs
  /\ s = list_storage_create("NM_BYTE", <<0>>, 1, 0)
  /\ status = "start"
  /\ out = NoCopy
  /\ right = Unused
  /\ shadow = Unused
  /\ last = NoCall

FromDense ==
  /\ status = "start"
  /\ input.kind = "dense"
  /\ \E l_dtype \in {"NM_BYTE", "NM_INT32"} :
       s' = list_storage_from_dense(input, l_dtype)
  /\ status' = "built"
  /\ UNCHANGED <<right, shadow, last, input, out>>

FromYale ==
  /\ status = "start"
  /\ input.kind = "yale"
  /\ \E l_dtype \in {"NM_BYTE", "NM_INT32"} :
       s' = list_storage_from_yale(input, l_dtype)
  /\ status' = "built"
  /\ UNCHANGED <<right, shadow, last, input, out>>

CastCopy ==
  /\ status = "built"
  /\ \E new_dtype \in DTypes : out' = list_storage_cast_copy(s, new_dtype)
  /\ status' = "copied"
  /\ UNCHANGED <<s, right, shadow, last, input>>

NextConv == FromDense \/ FromYale \/ CastCopy

SpecConv == InitConv /\ [][NextConv]_vars

\* Row-major position of a coordinate in the dense buffer.
RECURSIVE LinearPos(_, _)
LinearPos(c, shape) ==
  IF c = <<>> THEN 0
  ELSE Head(c) * count_storage_max_elements(Tail(shape)) + LinearPos(Tail(c), Tail(shape))

\* C2: after list_storage_from_dense, get(c) is the dense element at c cast
\* to the target dtype, for every coordinate, rank and shape.
C2_DenseRoundTrip ==
  (status = "built" /\ input.kind = "dense") =>
    \A c \in Coords(input.shape) :
      list_storage_get(s, c) =
        SetFuncs(s.dtype, input.dtype, input.elements[LinearPos(c, input.shape) + 1])

RECURSIVE Sorted(_, _)
Sorted(l, depth) ==
  /\ \A i \in 1 .. (Len(l) - 1) : l[i].key < l[i + 1].key
  /\ depth > 0 => \A i \in 1 .. Len(l) : Sorted(l[i].val, depth - 1)

\* C3: every list at every nesting level, the root included, holds its nodes
\* in strictly ascending key order.
C3_AscendingKeys == Sorted(s.rows, s.rank - 1)

\* The entries row i of the yale source stands for: its stored off-diagonal
\* entries and, when it differs from the zero slot, its diagonal.
YaleRowEntries(rhs, i, l_dtype) ==
  {Node(YaleGetIJA(rhs, p), SetFuncs(l_dtype, rhs.dtype, YaleA(rhs, p))) :
     p \in YaleGetIJA(rhs, i) .. (YaleGetIJA(rhs, i + 1) - 1)}
  \cup (IF YaleA(rhs, i) # YaleA(rhs, rhs.shape[1])
        THEN {Node(i, SetFuncs(l_dtype, rhs.dtype, YaleA(rhs, i)))}
        ELSE {})

\* C7: after list_storage_from_yale the sub-list of row i holds exactly the
\* row's stored off-diagonal entries plus one entry at column i when the
\* diagonal differs from the zero slot, in strictly ascending column order;
\* a row with neither has no node in the row list.
C7_YaleRows ==
  (status = "built" /\ input.kind = "yale") =>
    \A i \in 0 .. (input.shape[1] - 1) :
      LET want == YaleRowEntries(input, i, s.dtype)
          at   == {k \in 1 .. Len(s.rows) : s.rows[k].key = i}
      IN IF want = {} THEN at = {}
         ELSE /\ Cardinality(at) = 1
              /\ \A k \in at :
                   LET row == s.rows[k].val IN
                   /\ {row[x] : x \in 1 .. Len(row)} = want
                   /\ Len(row) = Cardinality(want)
                   /\ Sorted(row, 0)

\* Row 0 has a non-zero diagonal and a stored entry at column 2; row 1 has
\* stored entries on both sides of its non-zero diagonal.
C7_Witness ==
  /\ status = "built"
  /\ input.kind = "yale"
  /\ \E a \in 1 .. Len(s.rows), b \in 1 .. Len(s.rows) :
       /\ s.rows[a].key = 0
       /\ [k \in 1 .. Len(s.rows[a].val) |-> s.rows[a].val[k].key] = <<0, 2>>
       /\ s.rows[b].key = 1
       /\ [k \in 1 .. Len(s.rows[b].val) |-> s.rows[b].val[k].key] = <<0, 1, 2>>

\* C10: the buffer list_storage_cast_copy allocates for the default value is
\* at least the element size of new_dtype, and is not written past its end.
C10_DefaultBufferFits ==
  status = "copied" =>
    /\ out.default_alloc >= nm_sizeof(out.lhs.dtype)
    /\ out.default_written <= out.default_alloc

====
